---------------------------- MODULE Spec2Model ----------------------------
(***************************************************************************)
(* Model of vcl/source/font/fontcharmap.cxx: the CMAP table parser         *)
(* (ParseCMAP), the character map built from its result (ImplFontCharMap,  *)
(* FontCharMap) with its query methods, and the default-map accessor       *)
(* (ImplFontCharMap::getDefaultMap / FontCharMap::GetDefaultMap).          *)
(*                                                                         *)
(* Number representation.  TLC integers are 32-bit signed.  A C++ `int` is *)
(* represented by itself; a 32-bit unsigned value (unsigned, sal_UCS4) is  *)
(* represented by the int with the same bit pattern (two's complement), so *)
(* the conversion unsigned -> int is the identity on representations.      *)
(* Unsigned comparisons are ULt/ULe, wrapping arithmetic is Add32/Sub32.   *)
(***************************************************************************)
EXTENDS Integers, Sequences, FiniteSets, TLC

(***************************************************************************)
(* 32-bit arithmetic, computed on 16-bit halves so that no intermediate    *)
(* value leaves the 32-bit range.                                          *)
(***************************************************************************)
Hi16(a) == a \div 65536
Lo16(a) == a % 65536
Wrap16(h) == ((h + 32768) % 65536) - 32768

\* a + b modulo 2^32
Add32(a, b) ==
    LET l == Lo16(a) + Lo16(b)
        h == Hi16(a) + Hi16(b) + (l \div 65536)
    IN  Wrap16(h) * 65536 + (l % 65536)

\* a - b modulo 2^32
Sub32(a, b) ==
    LET l == Lo16(a) - Lo16(b)
        h == Hi16(a) - Hi16(b) + (l \div 65536)
    IN  Wrap16(h) * 65536 + (l % 65536)

\* a < b, a <= b on 32-bit unsigned values
ULt(a, b) == IF (a < 0) = (b < 0) THEN a < b ELSE b < 0
ULe(a, b) == a = b \/ ULt(a, b)

\* C++ integer division (truncation toward zero), b > 0
CDiv(a, b) == IF a >= 0 THEN a \div b ELSE -((-a) \div b)

Max(a, b) == IF a >= b THEN a ELSE b
Min(a, b) == IF a <= b THEN a ELSE b

(***************************************************************************)
(* State.                                                                  *)
(*   pCmap, nLength : the arguments of ParseCMAP (pCmap.null: no buffer)   *)
(*   cvt           : the text converter rtl_createTextToUnicodeConverter   *)
(*                   hands out for the subtable's encoding ("null": none)  *)
(*   pc, f         : ParseCMAP's position and its local variables          *)
(*   rResult, ret  : the CmapResult out-parameter and the return value     *)
(*   oob           : a byte outside [0, nLength) was read                  *)
(*   live          : the arrays ParseCMAP has allocated and not released   *)
(*   mpImplFontCharMap : the FontCharMap under query ("none" before one is *)
(*                   constructed), query: the last query and its result    *)
(*   g_pDefaultImplFontCharMap, heap, thr : the global default-map         *)
(*                   reference, the ImplFontCharMap instances created for  *)
(*                   it, and the callers of GetDefaultMap                  *)
(***************************************************************************)
VARIABLES pCmap, nLength, cvt, pc, f, rResult, ret, oob, live,
          mpImplFontCharMap, query,
          g_pDefaultImplFontCharMap, heap, thr

inputVars   == <<pCmap, nLength, cvt>>
parseVars   == <<pc, f, rResult, ret, oob, live>>
mapVars     == <<mpImplFontCharMap, query>>
defaultVars == <<g_pDefaultImplFontCharMap, heap, thr>>
vars == <<pCmap, nLength, cvt, pc, f, rResult, ret, oob, live,
          mpImplFontCharMap, query, g_pDefaultImplFontCharMap, heap, thr>>

(***************************************************************************)
(* Byte readers (big endian).  p is an offset from pCmap.                  *)
(***************************************************************************)
Byte(p) == pCmap.bytes[p + 1]

\* the n bytes at offset p lie inside the buffer
InBuf(p, n) == p >= 0 /\ p + n <= nLength

GetUShort(p) == Byte(p) * 256 + Byte(p + 1)

GetSShort(p) ==
    LET u == GetUShort(p) IN IF u >= 32768 THEN u - 65536 ELSE u

GetUInt(p) ==
    (IF Byte(p) >= 128 THEN Byte(p) - 256 ELSE Byte(p)) * 16777216
        + Byte(p + 1) * 65536 + Byte(p + 2) * 256 + Byte(p + 3)

(***************************************************************************)
(* ParseCMAP: header.                                                      *)
(***************************************************************************)
\* rtl_TextEncoding values used by the subtable switch
RTL_TEXTENCODING_UNICODE == "UNICODE"

ResetResult ==
    [mpRangeCodes |-> <<>>, mpStartGlyphs |-> <<>>, mpGlyphIds |-> <<>>,
     hasRangeCodes |-> FALSE, hasStartGlyphs |-> FALSE, hasGlyphIds |-> FALSE,
     mnRangeCount |-> 0, mbRecoded |-> FALSE, mbSymbolic |-> FALSE]

NoFrame ==
    [nSubTables |-> 0, p |-> 0, eRecodeFrom |-> RTL_TEXTENCODING_UNICODE,
     nOffset |-> 0, nFormat |-> -1, nBestVal |-> 0,
     nRangeCount |-> 0, pCodePairs |-> <<>>, pStartGlyphs |-> <<>>,
     aGlyphIdArray |-> <<>>, i |-> 0,
     pLimitBase |-> 0, pBeginBase |-> 0, pDeltaBase |-> 0, pOffsetBase |-> 0,
     pGroup |-> 0]

\* the buffer is too short for a header
TruncatedHeader(len) == len < 24

\* mutant of SubtableCountOutOfBounds: only the 4 header bytes are set aside
SubtableCountAgainstHeader(n, len) == n <= 0 \/ n > CDiv(len - 4, 8)

\* the declared subtable count does not fit the buffer
SubtableCountOutOfBounds(n, len) == n <= 0 \/ n > CDiv(len - 24, 8)

\* return bVal from ParseCMAP at the named place
Return(bVal, at) ==
    /\ ret' = [val |-> bVal, at |-> at]
    /\ pc' = "done"

\* a read outside the buffer: undefined behaviour, anything may follow
Undefined ==
    /\ oob' = TRUE
    /\ pc' = "ub"
    /\ UNCHANGED <<f, rResult, ret, live>>

ParseHeader ==
    /\ pc = "start"
    /\ UNCHANGED <<inputVars, mapVars, defaultVars>>
    /\ IF pCmap.null \/ TruncatedHeader(nLength)
       THEN /\ rResult' = ResetResult
            /\ Return(FALSE, "header")
            /\ UNCHANGED <<f, oob, live>>
       ELSE IF ~InBuf(0, 4)
       THEN Undefined
       ELSE IF GetUShort(0) # 0
       THEN /\ rResult' = ResetResult
            /\ Return(FALSE, "header")
            /\ UNCHANGED <<f, oob, live>>
       ELSE IF SubtableCountOutOfBounds(GetUShort(2), nLength)
       THEN /\ rResult' = ResetResult
            /\ Return(FALSE, "header")
            /\ UNCHANGED <<f, oob, live>>
       ELSE /\ rResult' = ResetResult
            /\ f' = [NoFrame EXCEPT !.nSubTables = GetUShort(2), !.p = 4]
            /\ pc' = "select"
            /\ UNCHANGED <<ret, oob, live>>

(***************************************************************************)
(* ParseCMAP: find the most interesting subtable.                          *)
(***************************************************************************)
\* nValue of the switch on nPlatformEncoding (0: unknown encoding)
SubtableValue(nPlatformEncoding) ==
    CASE nPlatformEncoding = 0   -> 20     \* 0x000 Unicode 1.0
      [] nPlatformEncoding = 1   -> 21     \* 0x001 Unicode 1.1
      [] nPlatformEncoding = 2   -> 22     \* 0x002 iso10646_1993
      [] nPlatformEncoding = 3   -> 23     \* 0x003 UCS-2
      [] nPlatformEncoding = 4   -> 24     \* 0x004 UCS-4
      [] nPlatformEncoding = 256 -> 22     \* 0x100 Mac Unicode<2.0
      [] nPlatformEncoding = 259 -> 23     \* 0x103 Mac Unicode>2.0
      [] nPlatformEncoding = 768 -> 5      \* 0x300 Win Symbol
      [] nPlatformEncoding = 769 -> 28     \* 0x301 Win UCS-2
      [] nPlatformEncoding = 778 -> 29     \* 0x30A Win-UCS-4
      [] nPlatformEncoding = 770 -> 11     \* 0x302 SHIFT_JIS
      [] nPlatformEncoding = 771 -> 12     \* 0x303 GB_18030
      [] nPlatformEncoding = 772 -> 11     \* 0x304 BIG5
      [] nPlatformEncoding = 773 -> 11     \* 0x305 MS_949
      [] nPlatformEncoding = 774 -> 11     \* 0x306 MS_1361
      [] OTHER -> 0

\* eTmpEncoding of the switch on nPlatformEncoding
SubtableEncoding(nPlatformEncoding) ==
    CASE nPlatformEncoding = 770 -> "SHIFT_JIS"
      [] nPlatformEncoding = 771 -> "GB_18030"
      [] nPlatformEncoding = 772 -> "BIG5"
      [] nPlatformEncoding = 773 -> "MS_949"
      [] nPlatformEncoding = 774 -> "MS_1361"
      [] OTHER -> RTL_TEXTENCODING_UNICODE

\* the Win Symbol key sets rResult.mbSymbolic
SubtableIsSymbol(nPlatformEncoding) == nPlatformEncoding = 768

\* the subtable's content offset cannot hold a format code
OffsetInvalid(nTmpOffset, len) == nTmpOffset > len - 2 \/ nTmpOffset < 0

\* the priority bonus of the 32-bit format
Format12Bonus == 3

\* mutant of Better: a later subtable of the same value is taken
BetterOrEqual(nBestVal, nValue) == nBestVal <= nValue

\* a subtable replaces the best one so far
Better(nBestVal, nValue) == nBestVal < nValue

\* one iteration of the loop over the subtable records
SelectSubtable ==
    /\ pc = "select"
    /\ f.nSubTables >= 1
    /\ UNCHANGED <<inputVars, mapVars, defaultVars>>
    /\ LET next == [f EXCEPT !.nSubTables = @ - 1, !.p = @ + 8]
       IN
       IF ~InBuf(f.p, 4)
       THEN Undefined
       ELSE
       LET nPlatform == GetUShort(f.p)
           nEncoding == GetUShort(f.p + 2)
           nPlatformEncoding == nPlatform * 256 + nEncoding
           nValue0 == SubtableValue(nPlatformEncoding)
           sym == rResult.mbSymbolic \/ SubtableIsSymbol(nPlatformEncoding)
           skip == /\ f' = next
                   /\ rResult' = [rResult EXCEPT !.mbSymbolic = sym]
                   /\ UNCHANGED <<pc, ret, oob, live>>
       IN
       IF nValue0 <= 0
       THEN skip
       ELSE IF ~InBuf(f.p + 4, 4)
       THEN Undefined
       ELSE
       LET nTmpOffset == GetUInt(f.p + 4) IN
       IF OffsetInvalid(nTmpOffset, nLength)
       THEN skip
       ELSE IF ~InBuf(nTmpOffset, 2)
       THEN Undefined
       ELSE
       LET nTmpFormat == GetUShort(nTmpOffset)
           nValue == IF nTmpFormat = 12 THEN nValue0 + Format12Bonus ELSE nValue0
       IN
       IF nTmpFormat # 12 /\ nTmpFormat # 4
       THEN skip
       ELSE /\ f' = IF Better(f.nBestVal, nValue)
                    THEN [next EXCEPT !.nBestVal = nValue,
                                      !.nOffset = nTmpOffset,
                                      !.nFormat = nTmpFormat,
                                      !.eRecodeFrom = SubtableEncoding(nPlatformEncoding)]
                    ELSE next
            /\ rResult' = [rResult EXCEPT !.mbSymbolic = sym]
            /\ UNCHANGED <<pc, ret, oob, live>>

(***************************************************************************)
(* ParseCMAP: parse the best subtable.                                     *)
(***************************************************************************)
\* mutant of ClampRangeCount: the declared count is trusted
ClampRangeCountTrusted(nRangeCount, nMaxPossible) == nRangeCount

\* a declared count is cut down to what the buffer can hold
ClampRangeCount(nRangeCount, nMaxPossible) ==
    IF nRangeCount > nMaxPossible THEN Max(0, nMaxPossible) ELSE nRangeCount

\* a negative count is taken as 0
NonNegative(nRangeCount) == IF nRangeCount < 0 THEN 0 ELSE nRangeCount

\* the subtable header (16 bytes) must end before the end of the buffer
SubtableFits(nOffset, len) == nOffset + 16 < len

\* leave a decoding loop: nRangeCount = (pCP - pCodePairs) / 2
EndRanges ==
    /\ f' = [f EXCEPT !.nRangeCount = CDiv(Len(f.pCodePairs), 2)]
    /\ pc' = "check"
    /\ UNCHANGED <<rResult, ret, oob, live>>

\* format 4: segment count and the four parallel arrays
Format4Begin ==
    /\ pc = "select"
    /\ f.nSubTables = 0
    /\ f.nFormat = 4
    /\ SubtableFits(f.nOffset, nLength)
    /\ UNCHANGED <<inputVars, mapVars, defaultVars>>
    /\ IF ~InBuf(f.nOffset + 6, 2)
       THEN Undefined
       ELSE
       LET nSegCountX2 == GetUShort(f.nOffset + 6)
           nRangeCount0 == NonNegative(CDiv(nSegCountX2, 2) - 1)
           pLimitBase == f.nOffset + 14
           pBeginBase == pLimitBase + nSegCountX2 + 2
           pDeltaBase == pBeginBase + nSegCountX2
           pOffsetBase == pDeltaBase + nSegCountX2
           nRemainingLen == nLength - pOffsetBase
           nMaxPossibleRangeOffsets == CDiv(nRemainingLen, 2)
       IN  /\ f' = [f EXCEPT
                      !.nRangeCount = ClampRangeCount(nRangeCount0, nMaxPossibleRangeOffsets),
                      !.pLimitBase = pLimitBase, !.pBeginBase = pBeginBase,
                      !.pDeltaBase = pDeltaBase, !.pOffsetBase = pOffsetBase,
                      !.aGlyphIdArray = <<0>>, !.i = 0,
                      !.pCodePairs = <<>>, !.pStartGlyphs = <<>>]
           /\ live' = {"pCodePairs", "pStartGlyphs"}
           /\ pc' = "seg4"
           /\ UNCHANGED <<rResult, ret, oob>>

\* mutant of DirectStartGlyph: the delta is left out
DirectStartGlyphNoDelta(cMinChar, nGlyphDelta) == cMinChar % 65536

\* the glyph id of the first code of a segment without range offset
DirectStartGlyph(cMinChar, nGlyphDelta) == (cMinChar + nGlyphDelta) % 65536

\* a glyph id cell plus the delta, as stored in the 16-bit glyph id array
IndirectGlyphId(nRawId, nGlyphDelta) == (nRawId + nGlyphDelta) % 65536

\* how many 16-bit cells lie between pGlyphIdPtr and the end of the buffer
MaxPossibleRecords(pGlyphIdPtr, len) ==
    (IF len >= pGlyphIdPtr THEN len - pGlyphIdPtr ELSE 0) \div 2

\* a segment is refused: Min > Max, or the terminator 0xFFFF
SegmentRefused(cMinChar, cMaxChar) == cMinChar > cMaxChar \/ cMaxChar = 65535

\* format 4: one segment
Format4Segment ==
    /\ pc = "seg4"
    /\ f.i < f.nRangeCount
    /\ UNCHANGED <<inputVars, mapVars, defaultVars>>
    /\ IF ~(/\ InBuf(f.pBeginBase + 2 * f.i, 2) /\ InBuf(f.pLimitBase + 2 * f.i, 2)
            /\ InBuf(f.pDeltaBase + 2 * f.i, 2) /\ InBuf(f.pOffsetBase + 2 * f.i, 2))
       THEN Undefined
       ELSE
       LET cMinChar == GetUShort(f.pBeginBase + 2 * f.i)
           cMaxChar == GetUShort(f.pLimitBase + 2 * f.i)
           nGlyphDelta == GetSShort(f.pDeltaBase + 2 * f.i)
           nRangeOffset == GetUShort(f.pOffsetBase + 2 * f.i)
           pGlyphIdPtr == f.pOffsetBase + 2 * f.i + nRangeOffset
           nMaxPossibleRecords == MaxPossibleRecords(pGlyphIdPtr, nLength)
           nMaxLegalChar == cMinChar + nMaxPossibleRecords - 1
           nCells == cMaxChar - cMinChar + 1
           accept(startGlyph, glyphIds) ==
               /\ f' = [f EXCEPT !.pCodePairs = @ \o <<cMinChar, cMaxChar + 1>>,
                                 !.pStartGlyphs = @ \o <<startGlyph>>,
                                 !.aGlyphIdArray = glyphIds,
                                 !.i = @ + 1]
               /\ UNCHANGED <<pc, rResult, ret, oob, live>>
       IN
       IF SegmentRefused(cMinChar, cMaxChar)
       THEN EndRanges
       ELSE IF nRangeOffset = 0
       THEN accept(DirectStartGlyph(cMinChar, nGlyphDelta), f.aGlyphIdArray)
       ELSE IF nMaxPossibleRecords = 0 \/ cMaxChar > nMaxLegalChar
       THEN EndRanges
       ELSE IF ~InBuf(pGlyphIdPtr, 2 * nCells)
       THEN Undefined
       ELSE accept(-Len(f.aGlyphIdArray),
                   f.aGlyphIdArray \o
                   [k \in 1..nCells |->
                       IndirectGlyphId(GetUShort(pGlyphIdPtr + 2 * (k - 1)), nGlyphDelta)])

Format4End ==
    /\ pc = "seg4"
    /\ f.i >= f.nRangeCount
    /\ UNCHANGED <<inputVars, mapVars, defaultVars>>
    /\ EndRanges

\* format 12: group count
Format12Begin ==
    /\ pc = "select"
    /\ f.nSubTables = 0
    /\ f.nFormat = 12
    /\ SubtableFits(f.nOffset, nLength)
    /\ UNCHANGED <<inputVars, mapVars, defaultVars>>
    /\ IF ~InBuf(f.nOffset + 12, 4)
       THEN Undefined
       ELSE
       LET nRangeCount0 == NonNegative(GetUInt(f.nOffset + 12))
           nGroupOffset == f.nOffset + 16
           nRemainingLen == nLength - nGroupOffset
           nMaxPossiblePairs == CDiv(nRemainingLen, 12)
       IN  /\ f' = [f EXCEPT
                      !.nRangeCount = ClampRangeCount(nRangeCount0, nMaxPossiblePairs),
                      !.pGroup = nGroupOffset,
                      !.aGlyphIdArray = <<0>>, !.i = 0,
                      !.pCodePairs = <<>>, !.pStartGlyphs = <<>>]
           /\ live' = {"pCodePairs", "pStartGlyphs"}
           /\ pc' = "grp12"
           /\ UNCHANGED <<rResult, ret, oob>>

\* a group is refused: Min > Max (unsigned)
GroupRefused(cMinChar, cMaxChar) == ULt(cMaxChar, cMinChar)

\* format 12: one group
Format12Group ==
    /\ pc = "grp12"
    /\ f.i < f.nRangeCount
    /\ UNCHANGED <<inputVars, mapVars, defaultVars>>
    /\ IF ~InBuf(f.pGroup, 12)
       THEN Undefined
       ELSE
       LET cMinChar == GetUInt(f.pGroup)
           cMaxChar == GetUInt(f.pGroup + 4)
           nGlyphId == GetUInt(f.pGroup + 8)
       IN
       IF GroupRefused(cMinChar, cMaxChar)
       THEN EndRanges
       ELSE /\ f' = [f EXCEPT !.pCodePairs = @ \o <<cMinChar, Add32(cMaxChar, 1)>>,
                              !.pStartGlyphs = @ \o <<nGlyphId>>,
                              !.pGroup = @ + 12,
                              !.i = @ + 1]
            /\ UNCHANGED <<pc, rResult, ret, oob, live>>

Format12End ==
    /\ pc = "grp12"
    /\ f.i >= f.nRangeCount
    /\ UNCHANGED <<inputVars, mapVars, defaultVars>>
    /\ EndRanges

\* no subtable of a supported format was chosen, or its header does not fit
NoSubtable ==
    /\ pc = "select"
    /\ f.nSubTables = 0
    /\ ~(f.nFormat \in {4, 12} /\ SubtableFits(f.nOffset, nLength))
    /\ UNCHANGED <<inputVars, mapVars, defaultVars>>
    /\ f' = [f EXCEPT !.aGlyphIdArray = <<0>>, !.nRangeCount = 0]
    /\ pc' = "check"
    /\ UNCHANGED <<rResult, ret, oob, live>>

(***************************************************************************)
(* ParseCMAP: nothing usable, the symbol fallback.                         *)
(***************************************************************************)
\* mutant of SymbolFallbackRanges: the whole page of original symbols
SymbolFallbackWholePage == <<32, 256, 61440, 61696>>

\* the ranges known for every symbol font: aliased and original symbols
SymbolFallbackRanges == <<32, 256, 61472, 61696>>

SymbolFallback ==
    /\ pc = "check"
    /\ f.nRangeCount <= 0
    /\ rResult.mbSymbolic
    /\ UNCHANGED <<inputVars, mapVars, defaultVars>>
    /\ live' = {"pCodePairs"}
    /\ f' = [f EXCEPT !.pCodePairs = SymbolFallbackRanges, !.pStartGlyphs = <<>>]
    /\ rResult' = [rResult EXCEPT !.mpRangeCodes = SymbolFallbackRanges,
                                  !.hasRangeCodes = TRUE,
                                  !.mnRangeCount = 2]
    /\ Return(TRUE, "fallback")
    /\ UNCHANGED oob

\* mutant of NoUsableSubtable: the arrays of the decoder are not released
NoUsableSubtableKept ==
    /\ pc = "check"
    /\ f.nRangeCount <= 0
    /\ ~rResult.mbSymbolic
    /\ UNCHANGED <<inputVars, mapVars, defaultVars>>
    /\ Return(FALSE, "nosubtable")
    /\ UNCHANGED <<f, rResult, oob, live>>

NoUsableSubtable ==
    /\ pc = "check"
    /\ f.nRangeCount <= 0
    /\ ~rResult.mbSymbolic
    /\ UNCHANGED <<inputVars, mapVars, defaultVars>>
    /\ live' = {}
    /\ f' = [f EXCEPT !.pCodePairs = <<>>, !.pStartGlyphs = <<>>]
    /\ Return(FALSE, "nosubtable")
    /\ UNCHANGED <<rResult, oob>>

(***************************************************************************)
(* ParseCMAP: recode the code ranges to unicode ranges.                    *)
(*                                                                         *)
(* rtl_convertTextToUnicode is a library routine; cvt names the converter  *)
(* the parse runs against.  A converter is modelled by what it returns for *)
(* the bytes one code point puts into cCharsInp (invalid and undefined     *)
(* input is ignored, as the flags ask): a set of at most one UTF-16 unit.  *)
(***************************************************************************)
\* the bytes pushed to cCharsInp for code point cMin
InputBytes(cMin) ==
    (IF cMin >= 256 THEN <<(cMin \div 256) % 256>> ELSE <<>>)
    \o (IF cMin >= 256 \/ cMin < 160 THEN <<cMin % 256>> ELSE <<>>)

ConvertTextToUnicode(aConverter, cCharsInp) ==
    CASE aConverter = "ascii" ->
            IF Len(cCharsInp) = 1 /\ cCharsInp[1] < 128 THEN {cCharsInp[1]} ELSE {}
      [] aConverter = "dbcs" ->
            IF Len(cCharsInp) = 1
            THEN (IF cCharsInp[1] < 128 THEN {cCharsInp[1]} ELSE {})
            ELSE IF Len(cCharsInp) = 2
            THEN {12288 + 2 * (cCharsInp[1] % 2) + (cCharsInp[2] % 4)}
            ELSE {}
      [] OTHER -> {}

\* the code points of the range [cMin, cEnd) that are fed to the converter:
\* while (cMin < cEnd && cMin <= SAL_MAX_UINT16)
CodesToConvert(cMin, cEnd) ==
    IF ~ULt(cMin, cEnd) \/ cMin < 0 \/ cMin > 65535
    THEN {}
    ELSE cMin .. (IF cEnd < 0 \/ cEnd > 65536 THEN 65535 ELSE cEnd - 1)

\* aSupportedCodePoints: everything the converter returned
SupportedCodePoints(aConverter, pCodePairs, nRangeCount) ==
    UNION { UNION { ConvertTextToUnicode(aConverter, InputBytes(c)) :
                      c \in CodesToConvert(pCodePairs[2 * i - 1], pCodePairs[2 * i]) } :
            i \in 1..nRangeCount }

\* the elements of a finite set of integers in ascending order
RECURSIVE Ascending(_)
Ascending(S) ==
    IF S = {} THEN <<>>
    ELSE LET m == CHOOSE x \in S : \A y \in S : x <= y
         IN  <<m>> \o Ascending(S \ {m})

\* mutant of AddSupportedPoint: every code point opens a range of its own
AddSupportedPointApart(aSupportedRanges, supportedPoint) ==
    aSupportedRanges \o <<supportedPoint, supportedPoint + 1>>

\* one step of the loop that converts the supported code points to ranges
AddSupportedPoint(aSupportedRanges, supportedPoint) ==
    LET opened ==
            IF aSupportedRanges = <<>>
               \/ aSupportedRanges[Len(aSupportedRanges)] # supportedPoint
            THEN aSupportedRanges \o <<supportedPoint, 0>>
            ELSE aSupportedRanges
    IN  [opened EXCEPT ![Len(opened)] = supportedPoint + 1]

RECURSIVE SupportedRangesFrom(_, _, _)
SupportedRangesFrom(points, k, aSupportedRanges) ==
    IF k > Len(points) THEN aSupportedRanges
    ELSE SupportedRangesFrom(points, k + 1,
                             AddSupportedPoint(aSupportedRanges, points[k]))

SupportedRanges(aSupportedCodePoints) ==
    SupportedRangesFrom(Ascending(aSupportedCodePoints), 1, <<>>)

RecodeRanges ==
    /\ pc = "check"
    /\ f.nRangeCount > 0
    /\ f.eRecodeFrom # RTL_TEXTENCODING_UNICODE
    /\ cvt # "null"
    /\ UNCHANGED <<inputVars, mapVars, defaultVars>>
    /\ LET aSupportedRanges ==
               SupportedRanges(SupportedCodePoints(cvt, f.pCodePairs, f.nRangeCount))
           nRangeCount == CDiv(Len(aSupportedRanges), 2)
       IN  /\ rResult' = [rResult EXCEPT !.mbRecoded = TRUE]
           /\ IF nRangeCount <= 0
              THEN /\ f' = [f EXCEPT !.pCodePairs = <<>>, !.pStartGlyphs = <<>>,
                                     !.aGlyphIdArray = <<>>,
                                     !.nRangeCount = nRangeCount]
                   /\ live' = {}
                   /\ Return(FALSE, "recode")
                   /\ UNCHANGED oob
              ELSE /\ f' = [f EXCEPT !.pCodePairs = aSupportedRanges,
                                     !.pStartGlyphs = <<>>,
                                     !.aGlyphIdArray = <<>>,
                                     !.nRangeCount = nRangeCount]
                   /\ live' = {"pCodePairs"}
                   /\ pc' = "update"
                   /\ UNCHANGED <<ret, oob>>

\* no recoding: a unicode subtable, or no converter for the encoding
SkipRecode ==
    /\ pc = "check"
    /\ f.nRangeCount > 0
    /\ ~(f.eRecodeFrom # RTL_TEXTENCODING_UNICODE /\ cvt # "null")
    /\ UNCHANGED <<inputVars, mapVars, defaultVars>>
    /\ rResult' = [rResult EXCEPT
                     !.mbRecoded = (f.eRecodeFrom # RTL_TEXTENCODING_UNICODE)]
    /\ pc' = "update"
    /\ UNCHANGED <<f, ret, oob, live>>

(***************************************************************************)
(* ParseCMAP: the glyph id array and the result struct.                    *)
(***************************************************************************)
UpdateResult ==
    /\ pc = "update"
    /\ UNCHANGED <<inputVars, mapVars, defaultVars>>
    /\ LET bGlyphIds == f.aGlyphIdArray # <<>>
       IN  /\ rResult' = [rResult EXCEPT
                            !.mpRangeCodes = f.pCodePairs,
                            !.hasRangeCodes = TRUE,
                            !.mpStartGlyphs = f.pStartGlyphs,
                            !.hasStartGlyphs = ("pStartGlyphs" \in live),
                            !.mnRangeCount = f.nRangeCount,
                            !.mpGlyphIds = f.aGlyphIdArray,
                            !.hasGlyphIds = bGlyphIds]
           /\ live' = live \cup (IF bGlyphIds THEN {"pGlyphIds"} ELSE {})
    /\ Return(TRUE, "ok")
    /\ UNCHANGED <<f, oob>>

(***************************************************************************)
(* The input buffers ParseCMAP is run on.                                  *)
(***************************************************************************)
MaxSegs == 2      \* segments of a format-4 subtable, besides the terminator
MaxGroups == 2    \* groups of a format-12 subtable

U16(v) == <<v \div 256, v % 256>>
U32(v) == U16(Hi16(v) % 65536) \o U16(Lo16(v))
Zeros(n) == [k \in 1..n |-> 0]
Cut(bytes, len) == [k \in 1..len |-> IF k <= Len(bytes) THEN bytes[k] ELSE 0]

RECURSIVE Concat(_)
Concat(ss) == IF ss = <<>> THEN <<>> ELSE Head(ss) \o Concat(Tail(ss))

\* all sequences over S of length at most n
RECURSIVE SeqsUpTo(_, _)
SeqsUpTo(S, n) ==
    IF n = 0 THEN {<<>>}
    ELSE LET shorter == SeqsUpTo(S, n - 1)
         IN  shorter \cup {Append(q, x) : q \in shorter, x \in S}

CmapHeader(version, nSubTables) == U16(version) \o U16(nSubTables)
CmapRecord(key, offset) == U16(key \div 256) \o U16(key % 256) \o U32(offset)

\* format-4 segments: start, end, delta, range offset
Segments ==
    { [s |-> 65,    e |-> 66,    d |-> 1,    ro |-> 0],
      [s |-> 65,    e |-> 65,    d |-> 0,    ro |-> 0],
      [s |-> 80,    e |-> 80,    d |-> -79,  ro |-> 0],
      [s |-> 97,    e |-> 98,    d |-> -98,  ro |-> 0],
      [s |-> 48,    e |-> 49,    d |-> 2,    ro |-> 6],
      [s |-> 96,    e |-> 95,    d |-> 0,    ro |-> 0],
      [s |-> 112,   e |-> 114,   d |-> 0,    ro |-> 16384],
      [s |-> 61472, e |-> 61473, d |-> 4067, ro |-> 0] }
Terminator == [s |-> 65535, e |-> 65535, d |-> 1, ro |-> 0]
GlyphCells == U16(7) \o U16(65535) \o U16(9) \o U16(10)

\* a format-4 subtable with the given segments (the terminator is added);
\* it declares the nSegCountX2 that `declared` names
Format4Subtable(segs, declared) ==
    LET all == segs \o <<Terminator>>
        n == Len(all)
        col(fld) == Concat([k \in 1..n |-> U16(all[k][fld] % 65536)])
        nSegCountX2 == CASE declared = "exact" -> 2 * n
                         [] declared = "more" -> 2 * n + 4
                         [] declared = "odd" -> 2 * n + 1
                         [] declared = "huge" -> 65535
                         [] declared = "zero" -> 0
    IN  U16(4) \o U16(0) \o U16(0) \o U16(nSegCountX2) \o Zeros(6)
        \o col("e") \o U16(0) \o col("s") \o col("d") \o col("ro") \o GlyphCells

\* format-12 groups: startChar, endChar, startGlyphId
Groups ==
    { [s |-> 65,     e |-> 66,     g |-> 5],
      [s |-> 128512, e |-> 128512, g |-> 500],
      [s |-> 80,     e |-> 79,     g |-> 1],
      [s |-> 96,     e |-> -1,     g |-> 1],           \* endChar 0xFFFFFFFF
      [s |-> 48,     e |-> 49,     g |-> -2147483647] } \* startGlyphId 0x80000001

\* a format-12 subtable with the given groups; it declares the group count
\* that `declared` names
Format12Subtable(groups, declared) ==
    LET nGroups == CASE declared = "exact" -> Len(groups)
                     [] declared = "more" -> Len(groups) + 1
                     [] declared = "negative" -> -1
                     [] declared = "huge" -> 2147483647
    IN
    U16(12) \o U16(0) \o U32(0) \o U32(0) \o U32(nGroups)
    \o Concat([k \in 1..Len(groups) |->
                 U32(groups[k].s) \o U32(groups[k].e) \o U32(groups[k].g)])

RecodeKeys == {770, 771, 772, 773, 774}
Converters == {"null", "ascii", "dbcs", "empty"}

Input(bytes, key) ==
    [null |-> FALSE, bytes |-> bytes, recode |-> key \in RecodeKeys]

\* headers: short buffers, versions, subtable counts
HeaderInputs ==
    { Input(Cut(CmapHeader(ver, n), len), 0) :
        ver \in {0, 1}, n \in {0, 1, 2, 65535}, len \in {0, 23, 24, 31, 32, 39, 40} }
    \cup { [null |-> TRUE, bytes |-> Zeros(len), recode |-> FALSE] : len \in {0, 32} }

\* one record pointing to a format-4 subtable at offset 12
Format4Input(key, segs, declared, trunc) ==
    LET bytes == CmapHeader(0, 1) \o CmapRecord(key, 12)
                 \o Format4Subtable(segs, declared)
    IN  Input(Cut(bytes, Len(bytes) - trunc), key)

Format4Inputs ==
    { Format4Input(key, segs, "exact", 0) :
        key \in {769, 770, 768}, segs \in SeqsUpTo(Segments, MaxSegs) }
    \cup { Format4Input(769, segs, declared, trunc) :
        segs \in SeqsUpTo(Segments, MaxSegs),
        declared \in {"exact", "more", "odd", "huge", "zero"},
        trunc \in {0, 3, 9} }

\* one record pointing to a format-12 subtable at offset 12
Format12Input(key, groups, declared, trunc) ==
    LET bytes == CmapHeader(0, 1) \o CmapRecord(key, 12)
                 \o Format12Subtable(groups, declared)
    IN  Input(Cut(bytes, Len(bytes) + 4 - trunc), key)

Format12Inputs ==
    { Format12Input(key, groups, "exact", 0) :
        key \in {778, 771, 768}, groups \in SeqsUpTo(Groups, MaxGroups) }
    \cup { Format12Input(778, groups, declared, trunc) :
        groups \in SeqsUpTo(Groups, MaxGroups),
        declared \in {"exact", "more", "negative", "huge"},
        trunc \in {0, 5, 17} }

\* two records, each with a key and an offset of some kind
SelectionKeys == {769, 778, 768, 770, 1, 4, 2457}
SelectionInput(key1, to1, key2, to2) ==
    LET seg == CHOOSE x \in Segments : x.s = 65 /\ x.e = 66
        grp == CHOOSE x \in Groups : x.s = 128512
        t4 == Format4Subtable(<<seg>>, "exact")
        t12 == Format12Subtable(<<grp>>, "exact")
        len == 20 + Len(t4) + Len(t12)
        off(to) == CASE to = "f4" -> 20
                     [] to = "f12" -> 20 + Len(t4)
                     [] to = "other" -> 0
                     [] to = "last" -> len - 2
                     [] to = "past" -> len - 1
                     [] to = "negative" -> -1
    IN  [null |-> FALSE,
         bytes |-> CmapHeader(0, 2) \o CmapRecord(key1, off(to1))
                   \o CmapRecord(key2, off(to2)) \o t4 \o t12,
         recode |-> key1 \in RecodeKeys \/ key2 \in RecodeKeys]

SelectionInputs ==
    { SelectionInput(key1, to1, key2, to2) :
        key1 \in SelectionKeys, key2 \in SelectionKeys,
        to1 \in {"f4", "f12", "other", "last", "past", "negative"},
        to2 \in {"f4", "f12", "past"} }

Inputs == HeaderInputs \cup Format4Inputs \cup Format12Inputs \cup SelectionInputs

(***************************************************************************)
(* ImplFontCharMap: built from a CmapResult.                               *)
(***************************************************************************)
NoMap == [none |-> TRUE]

\* CmapResult( bSymbolic, pRangeCodes, nRangeCount )
CmapResult(bSymbolic, pRangeCodes, nRangeCount) ==
    [ResetResult EXCEPT !.mpRangeCodes = pRangeCodes, !.hasRangeCodes = TRUE,
                        !.mnRangeCount = nRangeCount, !.mbSymbolic = bSymbolic]

\* mutant of CharCountFrom: the last code of a range is counted twice
RECURSIVE CharCountInclusive(_, _, _, _)
CharCountInclusive(codes, nRanges, i, mnCharCount) ==
    IF i >= nRanges THEN mnCharCount
    ELSE CharCountInclusive(codes, nRanges, i + 1,
                            Add32(mnCharCount,
                                  Add32(Sub32(codes[2 * i + 2], codes[2 * i + 1]), 1)))

\* the loop of the constructor: mnCharCount += cLast - cFirst for each range
RECURSIVE CharCountFrom(_, _, _, _)
CharCountFrom(codes, nRanges, i, mnCharCount) ==
    IF i >= nRanges THEN mnCharCount
    ELSE CharCountFrom(codes, nRanges, i + 1,
                       Add32(mnCharCount, Sub32(codes[2 * i + 2], codes[2 * i + 1])))

ImplFontCharMap(rCR) ==
    [none |-> FALSE,
     mpRangeCodes |-> rCR.mpRangeCodes,
     mpStartGlyphs |-> rCR.mpStartGlyphs,
     hasStartGlyphs |-> rCR.hasStartGlyphs,
     mpGlyphIds |-> rCR.mpGlyphIds,
     mnRangeCount |-> rCR.mnRangeCount,
     mnCharCount |-> CharCountFrom(rCR.mpRangeCodes, rCR.mnRangeCount, 0, 0),
     m_bSymbolic |-> rCR.mbSymbolic]

(***************************************************************************)
(* FontCharMap: the queries, on the map mpImplFontCharMap.                 *)
(***************************************************************************)
\* mpImplFontCharMap->mpRangeCodes[ i ]
RangeCode(i) == mpImplFontCharMap.mpRangeCodes[i + 1]

isSymbolic == mpImplFontCharMap.m_bSymbolic

GetCharCount == mpImplFontCharMap.mnCharCount

\* mutant of findRangeLoop: a code point equal to a boundary goes left
RECURSIVE findRangeLoopStrict(_, _, _, _)
findRangeLoopStrict(cChar, nLower, nMid, nUpper) ==
    IF nLower < nUpper
    THEN LET lo == IF ULt(RangeCode(nMid), cChar) THEN nMid ELSE nLower
             up == IF ULt(RangeCode(nMid), cChar) THEN nUpper ELSE nMid - 1
         IN  findRangeLoopStrict(cChar, lo, CDiv(lo + up + 1, 2), up)
    ELSE nMid

RECURSIVE findRangeLoop(_, _, _, _)
findRangeLoop(cChar, nLower, nMid, nUpper) ==
    IF nLower < nUpper
    THEN LET lo == IF ULe(RangeCode(nMid), cChar) THEN nMid ELSE nLower
             up == IF ULe(RangeCode(nMid), cChar) THEN nUpper ELSE nMid - 1
         IN  findRangeLoop(cChar, lo, CDiv(lo + up + 1, 2), up)
    ELSE nMid

findRangeIndex(cChar) ==
    findRangeLoop(cChar, 0, mpImplFontCharMap.mnRangeCount,
                  2 * mpImplFontCharMap.mnRangeCount - 1)

\* the loop over the complete ranges between cMin and cMax
RECURSIVE CountFullRanges(_, _, _)
CountFullRanges(i, nRangeMax, nCount) ==
    IF i <= nRangeMax
    THEN CountFullRanges(i + 2, nRangeMax,
                         Add32(nCount, Sub32(RangeCode(i + 1), RangeCode(i))))
    ELSE nCount

CountCharsInRange(cMin, cMax) ==
    LET nRangeMin0 == findRangeIndex(cMin)
        odd0 == nRangeMin0 % 2 = 1
        nRangeMin == IF odd0 THEN nRangeMin0 + 1 ELSE nRangeMin0
        nCount1 == IF ~odd0 /\ ULt(RangeCode(nRangeMin0), cMin)
                   THEN Sub32(0, Sub32(cMin, RangeCode(nRangeMin0)))
                   ELSE 0
        nRangeMax0 == findRangeIndex(cMax)
        odd1 == nRangeMax0 % 2 = 1
        nRangeMax == IF odd1 THEN nRangeMax0 - 1 ELSE nRangeMax0
        nCount2 == IF odd1 THEN nCount1
                   ELSE Sub32(nCount1, Sub32(Sub32(RangeCode(nRangeMax0 + 1), cMax), 1))
    IN  CountFullRanges(nRangeMin, nRangeMax, nCount2)

GetFirstChar == RangeCode(0)

GetLastChar == Sub32(RangeCode(2 * mpImplFontCharMap.mnRangeCount - 1), 1)

GetNextChar(cChar) ==
    IF ULt(cChar, GetFirstChar) THEN GetFirstChar
    ELSE IF ULe(GetLastChar, cChar) THEN GetLastChar
    ELSE LET nRange == findRangeIndex(Add32(cChar, 1))
         IN  IF nRange % 2 = 1 THEN RangeCode(nRange + 1) ELSE Add32(cChar, 1)

\* mutant of GetPrevChar: the end of the previous range is returned as is
GetPrevCharAtEnd(cChar) ==
    IF ULe(cChar, GetFirstChar) THEN GetFirstChar
    ELSE IF ULt(GetLastChar, cChar) THEN GetLastChar
    ELSE LET nRange == findRangeIndex(Sub32(cChar, 1))
         IN  IF nRange % 2 = 1 THEN RangeCode(nRange) ELSE Sub32(cChar, 1)

GetPrevChar(cChar) ==
    IF ULe(cChar, GetFirstChar) THEN GetFirstChar
    ELSE IF ULt(GetLastChar, cChar) THEN GetLastChar
    ELSE LET nRange == findRangeIndex(Sub32(cChar, 1))
         IN  IF nRange % 2 = 1 THEN Sub32(RangeCode(nRange), 1) ELSE Sub32(cChar, 1)

RECURSIVE IndexFromCharLoop(_, _, _)
IndexFromCharLoop(cChar, i, nCharIndex) ==
    IF i >= mpImplFontCharMap.mnRangeCount THEN -1
    ELSE LET cFirst == RangeCode(2 * i)
             cLast == RangeCode(2 * i + 1)
         IN  IF ULe(cLast, cChar)
             THEN IndexFromCharLoop(cChar, i + 1, Add32(nCharIndex, Sub32(cLast, cFirst)))
             ELSE IF ULe(cFirst, cChar)
             THEN Add32(nCharIndex, Sub32(cChar, cFirst))
             ELSE -1

GetIndexFromChar(cChar) == IndexFromCharLoop(cChar, 0, 0)

\* mutant of CharFromIndexLoop: an index that uses up a range stays in it
RECURSIVE CharFromIndexLoopLate(_, _)
CharFromIndexLoopLate(nIndex, i) ==
    IF i >= mpImplFontCharMap.mnRangeCount THEN RangeCode(0)
    ELSE LET cFirst == RangeCode(2 * i)
             cLast == RangeCode(2 * i + 1)
             nLeft == Sub32(nIndex, Sub32(cLast, cFirst))
         IN  IF nLeft <= 0 THEN Add32(cLast, nLeft)
             ELSE CharFromIndexLoopLate(nLeft, i + 1)

RECURSIVE CharFromIndexLoop(_, _)
CharFromIndexLoop(nIndex, i) ==
    IF i >= mpImplFontCharMap.mnRangeCount THEN RangeCode(0)
    ELSE LET cFirst == RangeCode(2 * i)
             cLast == RangeCode(2 * i + 1)
             nLeft == Sub32(nIndex, Sub32(cLast, cFirst))
         IN  IF nLeft < 0 THEN Add32(cLast, nLeft)
             ELSE CharFromIndexLoop(nLeft, i + 1)

GetCharFromIndex(nIndex) == CharFromIndexLoop(nIndex, 0)

\* cChar | 0xF000
OrF000(cChar) == cChar - ((cChar \div 4096) % 16) * 4096 + 61440

\* symbol aliasing gives symbol fonts a second chance: U+00xx -> U+F0xx
AliasApplies(cChar) ==
    ULe(cChar, 255) /\ ULe(61440, RangeCode(0)) /\ ULe(RangeCode(1), 61695)

\* cChar lies before the first range
BelowFirstRange(cChar, nRange) == nRange = 0 /\ ULt(cChar, RangeCode(0))

\* the range lookup of GetGlyphIndex: the code point looked up in the end
\* (cChar, or its alias), its range index, and whether it is inside a range
GlyphLookup(cChar) ==
    LET nRange0 == findRangeIndex(cChar)
        retry == BelowFirstRange(cChar, nRange0) /\ AliasApplies(cChar)
        c == IF retry THEN OrF000(cChar) ELSE cChar
        nRange == IF retry THEN findRangeIndex(c) ELSE nRange0
    IN  [retry |-> retry, cChar |-> c, nRange |-> nRange,
         found |-> ~BelowFirstRange(c, nRange) /\ nRange % 2 = 0]

\* the index at which GetGlyphIndex reads mpGlyphIds (for an indirect range)
GlyphIdIndex(cChar) ==
    LET l == GlyphLookup(cChar)
    IN  Sub32(Sub32(l.cChar, RangeCode(l.nRange)),
              mpImplFontCharMap.mpStartGlyphs[(l.nRange \div 2) + 1])

\* GetGlyphIndex reads mpGlyphIds, and where
ReadsGlyphIds(cChar) ==
    /\ mpImplFontCharMap.hasStartGlyphs
    /\ GlyphLookup(cChar).found
    /\ mpImplFontCharMap.mpStartGlyphs[(GlyphLookup(cChar).nRange \div 2) + 1] < 0

\* that read is outside the glyph id array: undefined behaviour
GlyphIdReadOutOfBounds(cChar) ==
    /\ ReadsGlyphIds(cChar)
    /\ GlyphIdIndex(cChar) \notin 0..(Len(mpImplFontCharMap.mpGlyphIds) - 1)

\* GetGlyphIndex when the glyph ids are known; the result of a read outside
\* mpGlyphIds is undefined (GlyphIdReadOutOfBounds) and stands as 0 here
GlyphIndexInRanges(cChar) ==
    LET l == GlyphLookup(cChar)
        nGlyphIndex == Sub32(l.cChar, RangeCode(l.nRange))
        nStartIndex == mpImplFontCharMap.mpStartGlyphs[(l.nRange \div 2) + 1]
    IN  IF ~l.found THEN 0
        ELSE IF nStartIndex >= 0 THEN Add32(nGlyphIndex, nStartIndex)
        ELSE IF GlyphIdReadOutOfBounds(cChar) THEN 0
        ELSE mpImplFontCharMap.mpGlyphIds[GlyphIdIndex(cChar) + 1]

\* mutant of GetGlyphIndex: notdef when the glyph ids are not known
GetGlyphIndexNotdef(cChar) ==
    IF ~mpImplFontCharMap.hasStartGlyphs THEN 0 ELSE GlyphIndexInRanges(cChar)

GetGlyphIndex(cChar) ==
    IF ~mpImplFontCharMap.hasStartGlyphs THEN -1 ELSE GlyphIndexInRanges(cChar)

HasChar(cChar) ==
    IF ~mpImplFontCharMap.hasStartGlyphs
    THEN LET nRange == findRangeIndex(cChar)
         IN  IF BelowFirstRange(cChar, nRange) THEN FALSE ELSE nRange % 2 = 0
    ELSE GetGlyphIndex(cChar) # 0

(***************************************************************************)
(* Construction of the FontCharMap under query, and the query calls.       *)
(***************************************************************************)
MaxRanges == 2     \* ranges of a CmapResult handed to FontCharMap( rCR )

NoQuery == [op |-> "none", arg |-> 0, arg2 |-> 0, res |-> 0, flag |-> FALSE,
            undefined |-> FALSE]

\* boundary values of the range tables handed to FontCharMap( rCR )
Boundaries == {32, 33, 35, 65, 61472, 61473, 61475, 61696}

RangeTables ==
    { Ascending(S) : S \in { T \in SUBSET Boundaries :
                               /\ T # {}
                               /\ Cardinality(T) % 2 = 0
                               /\ Cardinality(T) <= 2 * MaxRanges } }

\* a CmapResult as a font backend fills it in: ranges only, or with the
\* start glyph of each range
CmapResults ==
    { [CmapResult(sym, codes, Len(codes) \div 2) EXCEPT
          !.hasStartGlyphs = glyphs # "none",
          !.mpStartGlyphs = IF glyphs = "none" THEN <<>>
                            ELSE [k \in 1..(Len(codes) \div 2) |->
                                    IF glyphs = "zero" THEN 0 ELSE 3 * k]] :
        sym \in BOOLEAN, codes \in RangeTables, glyphs \in {"none", "zero", "direct"} }

\* FontCharMap::FontCharMap( const CmapResult& rCR ), on ParseCMAP's result
FontCharMapFromParse ==
    /\ pc = "done"
    /\ ret.val
    /\ mpImplFontCharMap = NoMap
    /\ mpImplFontCharMap' = ImplFontCharMap(rResult)
    /\ UNCHANGED <<inputVars, parseVars, query, defaultVars>>

\* FontCharMap::FontCharMap( const CmapResult& rCR ), on a backend's result
FontCharMapFromResult(rCR) ==
    /\ mpImplFontCharMap = NoMap
    /\ mpImplFontCharMap' = ImplFontCharMap(rCR)
    /\ UNCHANGED <<inputVars, parseVars, query, defaultVars>>

\* the code points a query is made with: around every boundary of the map,
\* their aliases below 0x100, and the ends of the code space
QueryChars ==
    LET codes == { RangeCode(i) : i \in 0..(2 * mpImplFontCharMap.mnRangeCount - 1) }
        near == UNION { {Sub32(c, 1), c, Add32(c, 1)} : c \in codes }
    IN  near \cup { c % 256 : c \in { x \in near : x >= 61440 /\ x < 61696 } }
             \cup {0, 255, 256}

QueryIndexes ==
    { GetIndexFromChar(c) : c \in QueryChars }
    \cup { -1, GetCharCount, Add32(GetCharCount, 1) }

\* The queries change nothing of the map, so the state after a sequence of
\* queries is the state after its last one: each behaviour makes one query.
Asked(op, arg, arg2, res, flag, undefined) ==
    /\ mpImplFontCharMap # NoMap
    /\ query = NoQuery
    /\ query' = [op |-> op, arg |-> arg, arg2 |-> arg2, res |-> res,
                 flag |-> flag, undefined |-> undefined]
    /\ UNCHANGED <<inputVars, parseVars, mpImplFontCharMap, defaultVars>>

CallHasChar ==
    /\ mpImplFontCharMap # NoMap
    /\ query = NoQuery
    /\ \E c \in QueryChars :
          Asked("HasChar", c, 0, 0, HasChar(c), GlyphIdReadOutOfBounds(c))

CallGetGlyphIndex ==
    /\ mpImplFontCharMap # NoMap
    /\ query = NoQuery
    /\ \E c \in QueryChars :
          Asked("GetGlyphIndex", c, 0, GetGlyphIndex(c), FALSE, GlyphIdReadOutOfBounds(c))

CallCountCharsInRange ==
    /\ mpImplFontCharMap # NoMap
    /\ query = NoQuery
    /\ \E cMin \in QueryChars : \E cMax \in QueryChars :
          /\ ULe(cMin, cMax)
          /\ Asked("CountCharsInRange", cMin, cMax, CountCharsInRange(cMin, cMax),
                   FALSE, FALSE)

CallGetNextChar ==
    /\ mpImplFontCharMap # NoMap
    /\ query = NoQuery
    /\ \E c \in QueryChars : Asked("GetNextChar", c, 0, GetNextChar(c), FALSE, FALSE)

CallGetPrevChar ==
    /\ mpImplFontCharMap # NoMap
    /\ query = NoQuery
    /\ \E c \in QueryChars : Asked("GetPrevChar", c, 0, GetPrevChar(c), FALSE, FALSE)

CallGetIndexFromChar ==
    /\ mpImplFontCharMap # NoMap
    /\ query = NoQuery
    /\ \E c \in QueryChars :
          Asked("GetIndexFromChar", c, 0, GetIndexFromChar(c), FALSE, FALSE)

CallGetCharFromIndex ==
    /\ mpImplFontCharMap # NoMap
    /\ query = NoQuery
    /\ \E i \in QueryIndexes :
          Asked("GetCharFromIndex", i, 0, GetCharFromIndex(i), FALSE, FALSE)

(***************************************************************************)
(* The default maps: ImplFontCharMap::getDefaultMap as called by           *)
(* FontCharMap::GetDefaultMap from several threads.                        *)
(*                                                                         *)
(* heap[id] is the ImplFontCharMap instance number id (ids count from 1,   *)
(* 0 is the null reference) with its reference count; an instance whose    *)
(* count has dropped to 0 is deleted.  g_pDefaultImplFontCharMap is        *)
(* written without any lock: the move assignment of the reference first    *)
(* releases the instance it held and then stores the new one.              *)
(***************************************************************************)
NThreads == 2     \* threads calling GetDefaultMap
MaxCalls == 2     \* calls of GetDefaultMap per thread

Threads == 1..NThreads

aDefaultUnicodeRanges == <<32, 55296, 57344, 65520>>
aDefaultSymbolRanges == <<32, 256, 61472, 61696>>

\* aDefaultCR of getDefaultMap( bSymbols )
DefaultCmapResult(bSymbols) ==
    LET pRangeCodes == IF bSymbols THEN aDefaultSymbolRanges ELSE aDefaultUnicodeRanges
    IN  CmapResult(bSymbols, pRangeCodes, CDiv(Len(pRangeCodes), 2))

IdleThread == [pc |-> "idle", bSymbols |-> FALSE, pNew |-> 0, calls |-> 0,
               handles |-> <<>>]

\* a reference to instance id is dropped
ReleaseRef(h, id) ==
    IF id = 0 THEN h ELSE [h EXCEPT ![id].refs = @ - 1]

\* FontCharMap::GetDefaultMap( bSymbol ) is entered
CallGetDefaultMap(t, bSymbol) ==
    /\ thr[t].pc = "idle"
    /\ thr[t].calls < MaxCalls
    /\ thr' = [thr EXCEPT ![t].pc = "construct", ![t].bSymbols = bSymbol,
                          ![t].calls = @ + 1]
    /\ UNCHANGED <<g_pDefaultImplFontCharMap, heap>>
    /\ UNCHANGED <<inputVars, parseVars, mapVars>>

\* getDefaultMap: new ImplFontCharMap(aDefaultCR), held by a temporary reference
ConstructDefault(t) ==
    /\ thr[t].pc = "construct"
    /\ heap' = Append(heap, [map |-> ImplFontCharMap(DefaultCmapResult(thr[t].bSymbols)),
                             refs |-> 1])
    /\ thr' = [thr EXCEPT ![t].pc = "release", ![t].pNew = Len(heap) + 1]
    /\ UNCHANGED g_pDefaultImplFontCharMap
    /\ UNCHANGED <<inputVars, parseVars, mapVars>>

\* g_pDefaultImplFontCharMap = ...: the instance held so far is released
ReleaseOldDefault(t) ==
    /\ thr[t].pc = "release"
    /\ heap' = ReleaseRef(heap, g_pDefaultImplFontCharMap)
    /\ thr' = [thr EXCEPT ![t].pc = "store"]
    /\ UNCHANGED g_pDefaultImplFontCharMap
    /\ UNCHANGED <<inputVars, parseVars, mapVars>>

\* g_pDefaultImplFontCharMap = ...: the new instance is stored
StoreDefault(t) ==
    /\ thr[t].pc = "store"
    /\ g_pDefaultImplFontCharMap' = thr[t].pNew
    /\ thr' = [thr EXCEPT ![t].pc = "copy"]
    /\ UNCHANGED heap
    /\ UNCHANGED <<inputVars, parseVars, mapVars>>

\* GetDefaultMap: new FontCharMap( <the reference getDefaultMap returned> ):
\* the global is copied into the caller's handle.  Copying a reference to a
\* deleted instance is undefined (valid = FALSE).
CopyDefault(t) ==
    /\ thr[t].pc = "copy"
    /\ LET id == g_pDefaultImplFontCharMap
           valid == heap[id].refs > 0
       IN  /\ heap' = IF valid THEN [heap EXCEPT ![id].refs = @ + 1] ELSE heap
           /\ thr' = [thr EXCEPT ![t].pc = "idle",
                                 ![t].handles = Append(@, [bSymbol |-> thr[t].bSymbols,
                                                           id |-> id,
                                                           valid |-> valid])]
    /\ UNCHANGED g_pDefaultImplFontCharMap
    /\ UNCHANGED <<inputVars, parseVars, mapVars>>

\* FontCharMap::FontCharMap(): the default map of a caller that runs alone
FontCharMapDefault(bSymbols) ==
    /\ mpImplFontCharMap = NoMap
    /\ heap = <<>>
    /\ heap' = <<[map |-> ImplFontCharMap(DefaultCmapResult(bSymbols)), refs |-> 2]>>
    /\ g_pDefaultImplFontCharMap' = 1
    /\ mpImplFontCharMap' = ImplFontCharMap(DefaultCmapResult(bSymbols))
    /\ UNCHANGED <<inputVars, parseVars, query, thr>>

(***************************************************************************)
(* Specifications.                                                         *)
(***************************************************************************)
InitParse ==
    /\ pc = "start" /\ f = NoFrame /\ rResult = ResetResult
    /\ ret = [val |-> FALSE, at |-> "none"] /\ oob = FALSE /\ live = {}

InitMap == mpImplFontCharMap = NoMap /\ query = NoQuery

InitDefault ==
    /\ g_pDefaultImplFontCharMap = 0 /\ heap = <<>>
    /\ thr = [t \in Threads |-> IdleThread]

NoInput == pCmap = [null |-> TRUE, bytes |-> <<>>] /\ nLength = 0 /\ cvt = "null"

\* ParseCMAP on an input buffer, and the map built from its result
Init ==
    /\ \E in \in Inputs :
          /\ pCmap = [null |-> in.null, bytes |-> in.bytes]
          /\ nLength = Len(in.bytes)
          /\ cvt \in (IF in.recode THEN Converters ELSE {"null"})
    /\ InitParse /\ InitMap /\ InitDefault

Next ==
    \/ ParseHeader
    \/ SelectSubtable
    \/ Format4Begin
    \/ Format4Segment
    \/ Format4End
    \/ Format12Begin
    \/ Format12Group
    \/ Format12End
    \/ NoSubtable
    \/ SymbolFallback
    \/ NoUsableSubtable
    \/ RecodeRanges
    \/ SkipRecode
    \/ UpdateResult
    \/ FontCharMapFromParse
    \/ CallHasChar
    \/ CallGetGlyphIndex

Spec == Init /\ [][Next]_vars

\* the queries of a FontCharMap built from a backend's result or by default
InitIdle == NoInput /\ InitParse /\ InitMap /\ InitDefault

NextQuery ==
    \/ \E rCR \in CmapResults : FontCharMapFromResult(rCR)
    \/ \E bSymbols \in BOOLEAN : FontCharMapDefault(bSymbols)
    \/ CallHasChar
    \/ CallGetGlyphIndex
    \/ CallCountCharsInRange
    \/ CallGetNextChar
    \/ CallGetPrevChar
    \/ CallGetIndexFromChar
    \/ CallGetCharFromIndex

SpecQuery == InitIdle /\ [][NextQuery]_vars

\* GetDefaultMap called from several threads
NextDefault ==
    \E t \in Threads :
        \/ \E bSymbol \in BOOLEAN : CallGetDefaultMap(t, bSymbol)
        \/ ConstructDefault(t)
        \/ ReleaseOldDefault(t)
        \/ StoreDefault(t)
        \/ CopyDefault(t)

SpecDefault == InitIdle /\ [][NextDefault]_vars

(***************************************************************************)
(* Properties.                                                             *)
(***************************************************************************)
\* the boundaries of a range table ascend strictly (as unsigned values)
StrictlyIncreasing(codes) ==
    \A i \in 1..(Len(codes) - 1) : ULt(codes[i], codes[i + 1])

MapCodes == mpImplFontCharMap.mpRangeCodes

\* cChar lies inside some range [start_i, end_i) of the map
Covered(cChar) ==
    \E i \in 0..(mpImplFontCharMap.mnRangeCount - 1) :
        ULe(RangeCode(2 * i), cChar) /\ ULt(cChar, RangeCode(2 * i + 1))

\* the number of code points of [cMin, cMax] inside the ranges i, i+1, ...
RECURSIVE CoveredFrom(_, _, _)
CoveredFrom(i, cMin, cMax) ==
    IF i >= mpImplFontCharMap.mnRangeCount THEN 0
    ELSE LET lo == Max(RangeCode(2 * i), cMin)
             hi == Min(RangeCode(2 * i + 1) - 1, cMax)
         IN  (IF hi >= lo THEN hi - lo + 1 ELSE 0) + CoveredFrom(i + 1, cMin, cMax)

\* the sum over all ranges of end_i - start_i
RECURSIVE WidthsFrom(_)
WidthsFrom(i) ==
    IF i >= mpImplFontCharMap.mnRangeCount THEN 0
    ELSE (RangeCode(2 * i + 1) - RangeCode(2 * i)) + WidthsFrom(i + 1)

\* the header checks of the specification, on the raw bytes
HeaderInvalid ==
    \/ pCmap.null
    \/ nLength < 24
    \/ pCmap.bytes[1] # 0 \/ pCmap.bytes[2] # 0
    \/ pCmap.bytes[3] = 0 /\ pCmap.bytes[4] = 0
    \/ 8 * (pCmap.bytes[3] * 256 + pCmap.bytes[4]) > nLength - 24

\* C1: whenever ParseCMAP succeeds, the boundary sequence of its result has
\* even length 2 * mnRangeCount and ascends strictly.
C1_BoundariesIncrease ==
    (pc = "done" /\ ret.val) =>
        /\ Len(rResult.mpRangeCodes) = 2 * rResult.mnRangeCount
        /\ StrictlyIncreasing(rResult.mpRangeCodes)

\* C2: ParseCMAP never reads a byte outside [0, nLength).
C2_ReadsInsideBuffer == ~oob /\ pc # "ub"

\* C2 witness: a format-4 segment count was cut down to what the buffer
\* holds, and segments were then read.
C2_Witness ==
    /\ pc = "seg4" /\ f.i >= 1 /\ ~oob
    /\ f.nRangeCount < CDiv(GetUShort(f.nOffset + 6), 2) - 1

\* C3: ParseCMAP returns false at the header, without undefined behaviour,
\* exactly when the buffer is absent, shorter than 24 bytes, of a version
\* other than 0, or declares 0 subtables or more than (nLength-24)/8.
C3_HeaderFailure ==
    (pc # "start") =>
        /\ HeaderInvalid => (pc = "done" /\ ret = [val |-> FALSE, at |-> "header"])
        /\ ~HeaderInvalid => ret.at # "header"

\* C3 witness: a present buffer of version 0 that declares more subtables
\* than it can hold was refused.
C3_Witness ==
    /\ pc = "done" /\ ret.at = "header" /\ ~pCmap.null /\ nLength >= 24
    /\ GetUShort(0) = 0 /\ GetUShort(2) > 0

\* C4: each default map is constructed at most once per kind, and callers
\* asking for the same kind hold the same instance.
C4_OneDefaultPerKind ==
    /\ \A b \in BOOLEAN :
          Cardinality({ id \in 1..Len(heap) : heap[id].map.m_bSymbolic = b }) <= 1
    /\ \A t1 \in Threads, t2 \in Threads :
       \A k1 \in 1..Len(thr[t1].handles), k2 \in 1..Len(thr[t2].handles) :
          thr[t1].handles[k1].bSymbol = thr[t2].handles[k2].bSymbol
              => thr[t1].handles[k1].id = thr[t2].handles[k2].id

\* C5 as claimed: on a strictly increasing table, every c with HasChar(c)
\* satisfies GetCharFromIndex(GetIndexFromChar(c)) = c.
C5_RoundTripOfHasChar ==
    (/\ query.op = "GetIndexFromChar"
     /\ StrictlyIncreasing(MapCodes)
     /\ HasChar(query.arg))
        => GetCharFromIndex(query.res) = query.arg

\* C5 as amended: on a strictly increasing table, every c with HasChar(c)
\* that lies inside a range satisfies GetCharFromIndex(GetIndexFromChar(c)) = c.
C5_RoundTripOfCovered ==
    (/\ query.op = "GetIndexFromChar"
     /\ StrictlyIncreasing(MapCodes)
     /\ HasChar(query.arg)
     /\ Covered(query.arg))
        => GetCharFromIndex(query.res) = query.arg

\* C5 witness: the index of a code point of a later range of a map with
\* glyph data was asked for.
C5_Witness ==
    /\ query.op = "GetIndexFromChar" /\ mpImplFontCharMap.hasStartGlyphs
    /\ StrictlyIncreasing(MapCodes) /\ mpImplFontCharMap.mnRangeCount >= 2
    /\ HasChar(query.arg) /\ Covered(query.arg)
    /\ ULt(RangeCode(2), query.arg)
    /\ GetCharFromIndex(query.res) = query.arg

\* C6: on a strictly increasing table and for covered c, GetNextChar undoes
\* GetPrevChar when c > GetFirstChar, and GetPrevChar undoes GetNextChar
\* when c < GetLastChar.
C6_NextPrevRoundTrip ==
    /\ (/\ query.op = "GetPrevChar" /\ StrictlyIncreasing(MapCodes)
        /\ Covered(query.arg) /\ ULt(GetFirstChar, query.arg))
           => GetNextChar(query.res) = query.arg
    /\ (/\ query.op = "GetNextChar" /\ StrictlyIncreasing(MapCodes)
        /\ Covered(query.arg) /\ ULt(query.arg, GetLastChar))
           => GetPrevChar(query.res) = query.arg

\* C6 witness: GetPrevChar of the first code point of a later range jumped
\* over a gap.
C6_Witness ==
    /\ query.op = "GetPrevChar" /\ Covered(query.arg)
    /\ ULt(GetFirstChar, query.arg) /\ query.res < query.arg - 1

\* C7: on a strictly increasing table, CountCharsInRange(GetFirstChar,
\* GetLastChar) = GetCharCount = the sum of the widths of the ranges.
C7_CountOfWholeMap ==
    (/\ query.op = "CountCharsInRange" /\ StrictlyIncreasing(MapCodes)
     /\ query.arg = GetFirstChar /\ query.arg2 = GetLastChar)
        => /\ query.res = GetCharCount
           /\ GetCharCount = WidthsFrom(0)

\* C7 witness: the whole of a map of several ranges was counted.
C7_Witness ==
    /\ query.op = "CountCharsInRange" /\ mpImplFontCharMap.mnRangeCount >= 2
    /\ query.arg = GetFirstChar /\ query.arg2 = GetLastChar

\* C8: on a strictly increasing table and for cMin <= cMax,
\* CountCharsInRange(cMin, cMax) is the number of covered code points of
\* [cMin, cMax], and is never negative.
C8_CountInRange ==
    (query.op = "CountCharsInRange" /\ StrictlyIncreasing(MapCodes))
        => /\ query.res = CoveredFrom(0, query.arg, query.arg2)
           /\ query.res >= 0

\* C9 as claimed: without glyph origin data GetGlyphIndex returns 0.
C9_NotdefWithoutGlyphs ==
    (query.op = "GetGlyphIndex" /\ ~mpImplFontCharMap.hasStartGlyphs)
        => query.res = 0

\* C9 as amended: without glyph origin data GetGlyphIndex returns -1.
C9_MinusOneWithoutGlyphs ==
    (query.op = "GetGlyphIndex" /\ ~mpImplFontCharMap.hasStartGlyphs)
        => query.res = -1

\* C9 witness: the glyph of a covered code point of a ranges-only map was
\* asked for.
C9_Witness ==
    /\ query.op = "GetGlyphIndex" /\ ~mpImplFontCharMap.hasStartGlyphs
    /\ Covered(query.arg)

\* C10: on a ranges-only map with a strictly increasing table, HasChar(c)
\* holds iff c lies inside a range; findRangeIndex(c) is the greatest index
\* m with boundary[m] <= c (0 below the first boundary), and c is covered
\* iff c >= boundary[0] and that index is even.
C10_HasCharIsContainment ==
    (/\ query.op = "HasChar" /\ ~mpImplFontCharMap.hasStartGlyphs
     /\ StrictlyIncreasing(MapCodes))
        => LET c == query.arg
               below == { m \in 0..(Len(MapCodes) - 1) : ULe(RangeCode(m), c) }
               m == findRangeIndex(c)
           IN  /\ query.flag <=> Covered(c)
               /\ IF below = {} THEN m = 0
                  ELSE m \in below /\ \A k \in below : k <= m
               /\ Covered(c) <=> (ULe(RangeCode(0), c) /\ m % 2 = 0)

\* C10 witness: HasChar was asked for a code point in the gap between two
\* ranges of a ranges-only map.
C10_Witness ==
    /\ query.op = "HasChar" /\ ~mpImplFontCharMap.hasStartGlyphs
    /\ ~query.flag /\ findRangeIndex(query.arg) % 2 = 1
    /\ findRangeIndex(query.arg) < Len(MapCodes) - 1


\* C11: with a valid header and no subtable that yielded a range, ParseCMAP
\* succeeds iff subtable selection set the symbolic flag, and then returns
\* exactly the ranges [0x0020,0x0100) and [0xF020,0xF100), the symbolic flag
\* set, and neither glyph origins nor glyph ids, so that on the map built
\* from it HasChar(0x41) holds by range containment.
C11_SymbolicFallback ==
    /\ (/\ pc = "done" /\ ~HeaderInvalid /\ f.nRangeCount <= 0
         /\ ret.at # "recode")
            => /\ ret.val = rResult.mbSymbolic
               /\ ret.val =>
                     /\ rResult.mpRangeCodes = <<32, 256, 61472, 61696>>
                     /\ rResult.mnRangeCount = 2
                     /\ ~rResult.hasStartGlyphs /\ ~rResult.hasGlyphIds
               /\ ~ret.val => ~rResult.hasRangeCodes
    /\ (/\ mpImplFontCharMap # NoMap /\ ~HeaderInvalid /\ f.nRangeCount <= 0)
            => /\ HasChar(65) /\ ~HasChar(31) /\ GetGlyphIndex(65) = -1
               /\ isSymbolic

\* C11 witness: a map was built from the fallback of a symbol font whose
\* subtable declared segments but yielded none.
C11_Witness ==
    /\ mpImplFontCharMap # NoMap /\ ret.at = "fallback"
    /\ f.nFormat = 4 /\ SubtableFits(f.nOffset, nLength) /\ f.i = 0
    /\ GetUShort(f.nOffset + 6) >= 4


\* the fields of segment k of the format-4 subtable at f.nOffset, as the
\* buffer holds them
SegStart(k) == GetUShort(f.pBeginBase + 2 * k)
SegEnd(k) == GetUShort(f.pLimitBase + 2 * k)
SegDelta(k) == GetSShort(f.pDeltaBase + 2 * k)
SegOffset(k) == GetUShort(f.pOffsetBase + 2 * k)

\* the decoder of the winning format-4 subtable is at work or has just ended
Format4Decoded ==
    /\ pc \in {"seg4", "check"}
    /\ f.nFormat = 4 /\ SubtableFits(f.nOffset, nLength)

\* the subtable holds the one segment 0x41..0x41, delta 0, range offset 0,
\* and the terminator, all inside the buffer, and is not recoded
OneSegmentTable ==
    /\ f.nFormat = 4 /\ SubtableFits(f.nOffset, nLength)
    /\ f.eRecodeFrom = RTL_TEXTENCODING_UNICODE
    /\ GetUShort(f.nOffset + 6) = 4
    /\ f.pOffsetBase + 4 <= nLength
    /\ SegStart(0) = 65 /\ SegEnd(0) = 65 /\ SegDelta(0) = 0 /\ SegOffset(0) = 0
    /\ SegEnd(1) = 65535

GrpStart(k) == GetUInt(f.nOffset + 16 + 12 * k)
GrpEnd(k) == GetUInt(f.nOffset + 16 + 12 * k + 4)
GrpGlyph(k) == GetUInt(f.nOffset + 16 + 12 * k + 8)
GrpCount == GetUInt(f.nOffset + 12)

\* the winning subtable is a unicode format-12 subtable whose declared
\* groups all lie inside the buffer, each with startChar <= endChar, in
\* ascending order and without overlap
Format12WellFormed ==
    /\ f.nFormat = 12 /\ SubtableFits(f.nOffset, nLength)
    /\ f.eRecodeFrom = RTL_TEXTENCODING_UNICODE
    /\ GrpCount \in 1..CDiv(nLength, 12)
    /\ f.nOffset + 16 + 12 * GrpCount <= nLength
    /\ \A k \in 0..(GrpCount - 1) : ULe(GrpStart(k), GrpEnd(k))
    /\ \A k \in 1..(GrpCount - 1) : ULt(GrpEnd(k - 1), GrpStart(k))

\* the sum over the groups k, k+1, ... of endChar - startChar + 1
RECURSIVE GroupWidthsFrom(_)
GroupWidthsFrom(k) ==
    IF k >= GrpCount THEN 0
    ELSE Add32(Add32(Sub32(GrpEnd(k), GrpStart(k)), 1), GroupWidthsFrom(k + 1))

\* C13: on the map parsed from a well-formed format-12 subtable, range k is
\* [startChar_k, endChar_k + 1), GetCharCount is the sum of the group
\* widths, and GetGlyphIndex(c) = startGlyphId_k + (c - startChar_k) for
\* every c of group k, computed without undefined behaviour.
C13_Format12Groups ==
    (mpImplFontCharMap # NoMap /\ Format12WellFormed) =>
        /\ mpImplFontCharMap.mnRangeCount = GrpCount
        /\ \A k \in 0..(GrpCount - 1) :
              /\ RangeCode(2 * k) = GrpStart(k)
              /\ RangeCode(2 * k + 1) = Add32(GrpEnd(k), 1)
              /\ ULt(GrpEnd(k), RangeCode(2 * k + 1))
        /\ GetCharCount = GroupWidthsFrom(0)
        /\ \A k \in 0..(GrpCount - 1) :
              (/\ query.op = "GetGlyphIndex"
               /\ ULe(GrpStart(k), query.arg) /\ ULe(query.arg, GrpEnd(k)))
                  => /\ ~query.undefined
                     /\ query.res = Add32(GrpGlyph(k), Sub32(query.arg, GrpStart(k)))


\* the first range of the map lies within [0xF000, 0xF0FF]
FirstRangeInSymbolPage ==
    ULe(61440, RangeCode(0)) /\ ULe(Sub32(RangeCode(1), 1), 61695)

\* C14: on a map with glyph origins (strictly increasing table, direct
\* origins) and for c outside every range, GetGlyphIndex looks c | 0xF000 up
\* iff the map is symbolic, c <= 0xFF and the first range lies within
\* [0xF000, 0xF0FF]; it returns 0 in every other such case and when
\* c | 0xF000 is outside every range too.
C14_AliasRetry ==
    (/\ query.op = "GetGlyphIndex" /\ mpImplFontCharMap.hasStartGlyphs
     /\ StrictlyIncreasing(MapCodes) /\ ~query.undefined
     /\ ~Covered(query.arg))
        => LET retry == /\ isSymbolic /\ ULe(query.arg, 255)
                        /\ FirstRangeInSymbolPage
               l == GlyphLookup(query.arg)
           IN  /\ l.retry = retry
               /\ (~retry \/ ~Covered(OrF000(query.arg))) => query.res = 0
               /\ (retry /\ Covered(OrF000(query.arg))) =>
                     /\ l.cChar = OrF000(query.arg) /\ l.found
                     /\ query.res = GlyphIndexInRanges(OrF000(query.arg))


\* C15: on a strictly increasing table, GetCharFromIndex(i) is the first
\* covered code point for every i < 0 and every i >= GetCharCount, and for
\* 0 <= i < GetCharCount the covered code point with exactly i covered code
\* points below it.
C15_CharFromIndex ==
    (query.op = "GetCharFromIndex" /\ StrictlyIncreasing(MapCodes)) =>
        /\ (query.arg < 0 \/ query.arg >= GetCharCount) => query.res = RangeCode(0)
        /\ (query.arg >= 0 /\ query.arg < GetCharCount) =>
              /\ Covered(query.res)
              /\ CoveredFrom(0, RangeCode(0), query.res) = query.arg + 1


\* the fields of subtable record k of the header, as the buffer holds them
RecKey(k) == GetUShort(4 + 8 * k) * 256 + GetUShort(6 + 8 * k)
RecOffset(k) == GetUInt(8 + 8 * k)

\* record k has a recognized key, an offset in [0, nLength - 2] and a
\* format of 4 or 12
Eligible(k) ==
    /\ SubtableValue(RecKey(k)) > 0
    /\ RecOffset(k) >= 0 /\ RecOffset(k) <= nLength - 2
    /\ GetUShort(RecOffset(k)) \in {4, 12}

\* the score of an eligible record: the priority of its key, plus 3 for
\* format 12
Score(k) ==
    SubtableValue(RecKey(k)) + (IF GetUShort(RecOffset(k)) = 12 THEN 3 ELSE 0)

\* the records the selection loop has gone through
Processed == 0..(((f.p - 4) \div 8) - 1)

\* C16: after any number of records, the offset, format and source encoding
\* ParseCMAP holds are those of the eligible record with the highest score,
\* the first in table order among equals; without an eligible record none is
\* chosen.  Records that are not eligible have no influence.
C16_SubtableSelection ==
    (pc \notin {"start", "ub"} /\ ret.at # "header") =>
        LET E == { k \in Processed : Eligible(k) }
        IN  IF E = {}
            THEN /\ f.nFormat = -1 /\ f.nOffset = 0 /\ f.nBestVal = 0
                 /\ f.eRecodeFrom = RTL_TEXTENCODING_UNICODE
            ELSE LET w == CHOOSE k \in E :
                            \A j \in E : \/ Score(j) < Score(k)
                                         \/ (Score(j) = Score(k) /\ k <= j)
                 IN  /\ f.nOffset = RecOffset(w)
                     /\ f.nFormat = GetUShort(RecOffset(w))
                     /\ f.eRecodeFrom = SubtableEncoding(RecKey(w))
                     /\ f.nBestVal = Score(w)

\* C16 witness: two eligible records of equal score at different offsets,
\* and the first was chosen.
C16_Witness ==
    /\ pc = "select" /\ f.nSubTables = 0 /\ f.p = 20
    /\ Eligible(0) /\ Eligible(1) /\ Score(0) = Score(1)
    /\ RecOffset(0) # RecOffset(1) /\ f.nOffset = RecOffset(0)


\* ParseCMAP is about to recode the decoded ranges with a converter
Recoding ==
    /\ pc = "check" /\ f.nRangeCount > 0
    /\ f.eRecodeFrom # RTL_TEXTENCODING_UNICODE /\ cvt # "null"

\* C17: when the winning subtable is not unicode and a converter exists,
\* the recoding step fails if the set S of values the converter produced is
\* empty, and otherwise leaves the ascending ranges that cover S exactly,
\* each value of S in exactly one range, no two ranges touching; the result
\* struct then gets exactly that table.
C17_RecodedRuns ==
    [][ /\ Recoding =>
            LET S == SupportedCodePoints(cvt, f.pCodePairs, f.nRangeCount)
                R == f'.pCodePairs
                n == Len(R) \div 2
            IN  IF S = {}
                THEN pc' = "done" /\ ret' = [val |-> FALSE, at |-> "recode"]
                ELSE /\ pc' = "update"
                     /\ Len(R) = 2 * n /\ f'.nRangeCount = n
                     /\ \A v \in S :
                           Cardinality({ k \in 1..n : R[2 * k - 1] <= v /\ v < R[2 * k] }) = 1
                     /\ \A k \in 1..n :
                           /\ R[2 * k - 1] < R[2 * k]
                           /\ \A c \in R[2 * k - 1]..(R[2 * k] - 1) : c \in S
                     /\ \A k \in 1..(n - 1) : R[2 * k] < R[2 * k + 1]
        /\ pc = "update" =>
            /\ ret'.val
            /\ rResult'.mpRangeCodes = f.pCodePairs
            /\ rResult'.mnRangeCount = f.nRangeCount
      ]_vars

\* C17 witness: the converter's values were turned into two runs, one of
\* them of more than one code point, and returned.
C17_Witness ==
    /\ pc = "done" /\ ret.at = "ok"
    /\ f.eRecodeFrom # RTL_TEXTENCODING_UNICODE /\ cvt # "null"
    /\ rResult.mnRangeCount = 2
    /\ rResult.mpRangeCodes[2] - rResult.mpRangeCodes[1] >= 2


\* C18: whenever ParseCMAP has returned false, the result struct holds no
\* range array, no glyph-origin array, no glyph-id array and the range
\* count 0, and no array allocated by the call is left unreleased.
C18_FailureLeavesNothing ==
    (pc = "done" /\ ~ret.val) =>
        /\ ret.at \in {"header", "nosubtable", "recode"}
        /\ ~rResult.hasRangeCodes /\ rResult.mpRangeCodes = <<>>
        /\ ~rResult.hasStartGlyphs /\ rResult.mpStartGlyphs = <<>>
        /\ ~rResult.hasGlyphIds /\ rResult.mpGlyphIds = <<>>
        /\ rResult.mnRangeCount = 0
        /\ live = {}

\* C18 witness: a format-4 decoder that had allocated its arrays yielded no
\* range, and the parse failed.
C18_Witness ==
    /\ pc = "done" /\ ret = [val |-> FALSE, at |-> "nosubtable"]
    /\ f.nFormat = 4 /\ SubtableFits(f.nOffset, nLength)
    /\ GetUShort(f.nOffset + 6) >= 4


\* C19: on a map built from a successful ParseCMAP result, GetGlyphIndex
\* (also when HasChar calls it) reads the glyph id table only for a range
\* that an indirect format-4 segment produced, and only inside the table.
C19_GlyphIdReadsInside ==
    (/\ query.op \in {"GetGlyphIndex", "HasChar"}
     /\ pc = "done" /\ ret.val)
        => /\ ~query.undefined
           /\ ReadsGlyphIds(query.arg) =>
                 /\ f.nFormat = 4
                 /\ SegOffset(GlyphLookup(query.arg).nRange \div 2) # 0
                 /\ GlyphIdIndex(query.arg) \in 0..(Len(mpImplFontCharMap.mpGlyphIds) - 1)

\* C20: every handle a caller of GetDefaultMap( bSymbol ) has received that
\* refers to a live map refers to one of the kind asked for: the symbol
\* default ranges with the symbolic flag for TRUE, the unicode default
\* ranges without it for FALSE.
C20_RequestedKind ==
    \A t \in Threads : \A k \in 1..Len(thr[t].handles) :
        LET h == thr[t].handles[k]
        IN  h.valid =>
              /\ heap[h.id].map.m_bSymbolic = h.bSymbol
              /\ heap[h.id].map.mpRangeCodes =
                    (IF h.bSymbol THEN <<32, 256, 61472, 61696>>
                     ELSE <<32, 55296, 57344, 65520>>)


\* the glyph id cell an indirect segment k holds for code point c
SegGlyphCell(k, c) ==
    GetUShort(f.pOffsetBase + 2 * k + SegOffset(k) + 2 * (c - SegStart(k)))

\* C21: on a map parsed from a unicode format-4 subtable (strictly
\* increasing table), GetGlyphIndex(c) lies in [0, 65535] for every c, is
\* (c + delta) mod 65536 for every c of a direct segment and
\* (rawId + delta) mod 65536 for every c of an indirect segment.
C21_SixteenBitGlyphIndex ==
    (/\ query.op = "GetGlyphIndex" /\ ~query.undefined
     /\ pc = "done" /\ ret.at = "ok"
     /\ f.nFormat = 4 /\ f.eRecodeFrom = RTL_TEXTENCODING_UNICODE
     /\ StrictlyIncreasing(MapCodes))
        => /\ query.res \in 0..65535
           /\ \A k \in 0..(mpImplFontCharMap.mnRangeCount - 1) :
                 (SegStart(k) <= query.arg /\ query.arg <= SegEnd(k)) =>
                     query.res =
                         IF SegOffset(k) = 0
                         THEN (query.arg + SegDelta(k)) % 65536
                         ELSE (SegGlyphCell(k, query.arg) + SegDelta(k)) % 65536

====
